---- MODULE Spec2Model ----
(***************************************************************************)
(* Model of cached_method.py: the cached_method descriptor, the            *)
(* WeaklyBoundMethod it wraps around the instance's method, and the        *)
(* functools.lru_cache wrapper it stores in the instance's __dict__.       *)
(***************************************************************************)
EXTENDS Integers, Sequences, FiniteSets, TLC

\* ------------------------------------------------------------------ bounds

\* Largest number of invocations of the underlying function on one instance.
MaxCalls == 4
\* Largest bounded maxsize given to cached_method (besides None and 0).
MaxCap == 2
\* Largest number of invocations on one instance where two instances, or
\* the attaching of names, are followed.
MaxCallsShared == 2

\* ------------------------------------------------------------- universes

\* maxsize=None of cached_method.__init__: the cache is unbounded.
Unbounded == -1

\* The cached_method objects of the program.
Binders == {"cm"}
\* The same with a second cached_method object, held by a subclass.
BindersPair == {"cm", "cm2"}
\* The function each cached_method object is constructed with.
FuncOf(b) == IF b = "cm2" THEN "g" ELSE "f"
\* The functions a cached_method can be given, and the value of an unset
\* func (None).
Funcs == {"f", "g"}
NoFunc == "None"
\* Attribute names a cached_method can be assigned to in a class body.
Names == {"a", "b"}
\* The value of an unset methname (None) and of a missing __dict__ entry.
NoName == "None"
NoMemo == 0

\* Classes: A and B are plain classes (instances carry a writable __dict__),
\* S defines __slots__ (instances have no __dict__), M is a metaclass (its
\* instances are classes, whose __dict__ is a read-only mappingproxy).
Types == {"A", "B", "S", "M"}
\* x and y are plain instances, s is an instance of S and k of M.
Instances == {"x", "y", "s", "k"}
DictKind(t) ==
    CASE t = "S" -> "none"
      [] t = "M" -> "readonly"
      [] OTHER -> "dict"

\* Call arguments: a value with its concrete type.  The ints 1 and 2 and the
\* float 1.0, where 1 == 1.0 and hash(1) == hash(1.0).
Args ==
    {[val |-> 1, ty |-> "int"], [val |-> 1, ty |-> "float"], [val |-> 2, ty |-> "int"]}

\* The arguments 1 and 1.0 alone.
ArgsOne == {a \in Args : a.val = 1}

\* The threads of the program that can be inside __get__ at the same time,
\* and the position of one that is not.
Callers == {"t1", "t2"}
Idle == [at |-> "idle", b |-> "-", i |-> "-", method |-> NoMemo]

\* Placeholders of the result record for the fields an operation does not set.
NoKey == [val |-> 0, ty |-> "-"]
NoValue == [f |-> "-", arg |-> NoKey, n |-> 0]

\* ----------------------------------------------------------------- state

VARIABLES
    binder,     \* binder[b]: the fields func, methname, maxsize, typed of b
    typeOf,     \* typeOf[i]: the class of instance i
    alive,      \* alive[i]: instance i has not been reclaimed
    extRef,     \* extRef[i]: the program holds a strong reference to i
    dict,       \* dict[i][n]: the entry n of i.__dict__ (a memoizer id or NoMemo)
    called,     \* called[i]: invocations of the underlying function on i
    memos,      \* the lru_cache wrappers created so far, by id
    retained,   \* ids of the memoizers the program holds a reference to
    hist,       \* per memoizer: what was observed of its calls so far
    conflicted, \* binders on which a __set_name__ has raised
    pc,         \* pc[t]: where caller t stands inside __get__, with its locals
    overlap,    \* instances on which two callers have been inside __get__ at once
    ret         \* the outcome of the last operation

vars == <<binder, typeOf, alive, extRef, dict, called, memos, retained, hist,
          conflicted, pc, overlap, ret>>

\* The outcome of an operation: which one, on what (binder, instance,
\* memoizer, attribute name), how it ended, with which key, what it returned,
\* whether the underlying function ran and whether the key was in the table.
Result(op, b, i, m, name, status, key, value, invoked, hit) ==
    [op |-> op, b |-> b, i |-> i, m |-> m, name |-> name, status |-> status,
     key |-> key, value |-> value, invoked |-> invoked, hit |-> hit]

\* --------------------------------------------------------------- metadata

\* The __name__ and __doc__ of a function.
Meta(f) == [name |-> f, doc |-> <<"doc of function", f>>]

\* What an object that has not been through update_wrapper shows: no
\* __name__ of its own, and the docstring of its class as __doc__.
OwnMeta(cls) == [name |-> NoName, doc |-> <<"doc of class", cls>>]

\* An update_wrapper that copies nothing.
update_wrapper_skipped(obj, f) == obj

\* functools.update_wrapper(obj, f): obj takes f's __name__ and __doc__.
update_wrapper(obj, f) == [obj EXCEPT !.meta = Meta(f)]

\* ------------------------------------------------------ WeaklyBoundMethod

\* The bound method kept as it is: a strong reference to the instance.
StronglyBoundMethod(i, f) == [obj |-> i, func |-> f, weak |-> FALSE]

\* WeaklyBoundMethod.__init__: only a weak reference to the bound method (and
\* so to the instance) is kept.
WeaklyBoundMethod(i, f) == [obj |-> i, func |-> f, weak |-> TRUE]

\* A dereference that never notices that the instance is gone.
DerefUnchecked(wbm) == wbm.obj

\* self.ref(): the bound method, or None once the instance is gone.  A strong
\* reference always resolves.
Deref(wbm) ==
    IF wbm.weak /\ ~alive[wbm.obj] THEN "None" ELSE wbm.obj

\* ---------------------------------------------------------------- lru_cache

\* A key that never holds the argument's type.
make_key_untyped(a, typed) ==
    [val |-> a.val, ty |-> "any"]

\* functools._make_key for one positional argument: equal values make equal
\* keys unless typed, when the argument's type is part of the key.
make_key(a, typed) ==
    [val |-> a.val, ty |-> IF typed THEN a.ty ELSE "any"]

\* lru_cache(maxsize, typed)(user_function): a wrapper with an empty table.
\* The table is ordered from least to most recently used.  The wrapper shows
\* what its user_function, a WeaklyBoundMethod object, shows.
lru_cache(maxsize, typed, wbm) ==
    [wrapped |-> wbm, maxsize |-> maxsize, typed |-> typed, table |-> <<>>,
     freed |-> FALSE, meta |-> OwnMeta("WeaklyBoundMethod")]

TableKeys(table) == {table[k].key : k \in 1..Len(table)}
IndexOf(table, key) == CHOOSE k \in 1..Len(table) : table[k].key = key
Without(table, k) ==
    [j \in 1..(Len(table) - 1) |-> IF j < k THEN table[j] ELSE table[j + 1]]

\* A hit that leaves the order alone: eviction by insertion order (FIFO).
PromoteNot(table, key) == table

\* A hit moves the entry to the most recently used end.
Promote(table, key) ==
    LET k == IndexOf(table, key)
    IN  Append(Without(table, k), table[k])

\* Insert with the eviction left out: a full table keeps growing.
InsertNoEvict(table, maxsize, key, value) ==
    IF maxsize = 0 THEN table
    ELSE Append(table, [key |-> key, value |-> value])

\* A miss stores the result as most recently used; a full table first drops
\* its least recently used entry; maxsize 0 stores nothing.
Insert(table, maxsize, key, value) ==
    IF maxsize = 0 THEN table
    ELSE IF maxsize # Unbounded /\ Len(table) >= maxsize
         THEN Append(Tail(table), [key |-> key, value |-> value])
         ELSE Append(table, [key |-> key, value |-> value])

\* The underlying function: it counts its invocations on the instance and
\* returns a value that tells which invocation computed it.
Compute(f, i, a) == [f |-> f, arg |-> a, n |-> called[i] + 1]

\* ------------------------------------------------------------ cached_method

\* Whether __call__(func) raises: another func than the one already set.
CallRaises(old, func) ==
    old # NoFunc /\ func # old

\* __call__ that takes every func it is given.
CallOverwrite(self, func) ==
    IF func # NoFunc THEN update_wrapper([self EXCEPT !.func = func], func)
    ELSE [self EXCEPT !.func = func]

\* The binder after __call__(func): func is set, and the binder takes the
\* metadata of a func that is not None; nothing changes when it raises.
Call(self, func) ==
    IF CallRaises(self.func, func) THEN self
    ELSE IF func # NoFunc THEN update_wrapper([self EXCEPT !.func = func], func)
    ELSE [self EXCEPT !.func = func]

\* cached_method.__init__(func, maxsize, typed): no name is attached yet,
\* and func goes through __call__.
cached_method_init(func, maxsize, typed) ==
    Call([func |-> NoFunc, methname |-> NoName, maxsize |-> maxsize,
          typed |-> typed, meta |-> OwnMeta("cached_method")], func)

\* cached_method.__call__(func): the decorator applied to a function.
cached_method_call(b, func) ==
    /\ binder' = [binder EXCEPT ![b] = Call(@, func)]
    /\ ret' = Result("bind", b, "-", NoMemo, NoName,
                     IF CallRaises(binder[b].func, func) THEN "OperationConflict" ELSE "ok",
                     NoKey, NoValue, FALSE, FALSE)
    /\ UNCHANGED <<typeOf, alive, extRef, dict, called, memos, retained, hist,
                   conflicted, pc, overlap>>

\* __set_name__ that takes every name it is given.
SetNameOverwrite(methname, name) == name

\* __set_name__ that makes the binder unusable on a second, different name.
SetNamePoison(methname, name) ==
    IF methname = NoName THEN name
    ELSE IF name # methname THEN NoName
    ELSE methname

\* The new methname after __set_name__(owner, name): the first name sticks.
SetNameField(methname, name) ==
    IF methname = NoName THEN name ELSE methname

\* Whether __set_name__(owner, name) raises: a second, different name.
SetNameRaises(methname, name) ==
    methname # NoName /\ name # methname

\* cached_method.__set_name__(owner, name), run when a class body that holds
\* the binder under `name` is executed.  The owner is not looked at.
set_name(b, owner, name) ==
    LET old == binder[b].methname
        bad == SetNameRaises(old, name)
    IN  /\ binder' = [binder EXCEPT ![b].methname = SetNameField(old, name)]
        /\ conflicted' = IF bad THEN conflicted \cup {b} ELSE conflicted
        /\ ret' = Result("set_name", b, "-", NoMemo, name,
                         IF bad THEN "NameConflict" ELSE "ok",
                         NoKey, NoValue, FALSE, FALSE)
        /\ UNCHANGED <<typeOf, alive, extRef, dict, called, memos, retained, hist,
                       pc, overlap>>

\* A cache looked up on the binder's side: the entry of whichever instance
\* has one under the name.
LookupShared(b, i) ==
    LET name == binder[b].methname
        have == {j \in Instances : dict[j][name] # NoMemo}
    IN  IF have = {} THEN NoMemo ELSE dict[CHOOSE j \in have : TRUE][name]

\* cache = instance.__dict__; method = cache.get(self.methname)
Lookup(b, i) == dict[i][binder[b].methname]

\* __get__ that looks for the instance's __dict__ before it checks the name.
GetStatusDictFirst(b, i) ==
    LET name == binder[b].methname
        kind == DictKind(typeOf[i])
    IN  IF kind = "none" THEN "NoAttributeStore"
        ELSE IF name = NoName THEN "UnboundAccess"
        ELSE IF Lookup(b, i) # NoMemo THEN "found"
        ELSE IF binder[b].func = NoFunc THEN "NoOperation"
        ELSE IF kind = "readonly" THEN "ImmutableAttributeStore"
        ELSE "created"

\* __get__ that takes every __dict__ for a writable one.
GetStatusWritable(b, i) ==
    LET name == binder[b].methname
        kind == DictKind(typeOf[i])
    IN  IF name = NoName THEN "UnboundAccess"
        ELSE IF kind = "none" THEN "NoAttributeStore"
        ELSE IF Lookup(b, i) # NoMemo THEN "found"
        ELSE IF binder[b].func = NoFunc THEN "NoOperation"
        ELSE "created"

\* How cached_method.__get__(instance) ends, by the order of its checks:
\* the name, the instance's __dict__, the entry under the name, the func
\* to bind (None has no __get__), the write.
GetStatus(b, i) ==
    LET name == binder[b].methname
        kind == DictKind(typeOf[i])
    IN  IF name = NoName THEN "UnboundAccess"
        ELSE IF kind = "none" THEN "NoAttributeStore"
        ELSE IF Lookup(b, i) # NoMemo THEN "found"
        ELSE IF binder[b].func = NoFunc THEN "NoOperation"
        ELSE IF kind = "readonly" THEN "ImmutableAttributeStore"
        ELSE "created"

\* A memoizer built with lru_cache's defaults instead of the binder's
\* maxsize and typed.
NewMemoDefaults(b, i) ==
    update_wrapper(lru_cache(Unbounded, FALSE,
                             WeaklyBoundMethod(i, binder[b].func)),
                   binder[b].func)

\* The memoizer __get__ builds for instance i: an lru_cache with the
\* binder's maxsize and typed around a WeaklyBoundMethod of the instance,
\* with the metadata of the binder's func.
NewMemo(b, i) ==
    update_wrapper(lru_cache(binder[b].maxsize, binder[b].typed,
                             WeaklyBoundMethod(i, binder[b].func)),
                   binder[b].func)

NewHist ==
    [seen |-> {}, first |-> {}, recency |-> <<>>, inv |-> 0, raised |-> FALSE]

\* __get__ with the write to the instance's __dict__ left out.
StoreNothing(d, i, name, m) == d

\* A write that puts the memoizer under the name in every instance's
\* __dict__, as a cache kept on the class would.
StoreEverywhere(d, i, name, m) ==
    [j \in Instances |-> [d[j] EXCEPT ![name] = m]]

\* cache[self.methname] = method
StoreMemo(d, i, name, m) == [d EXCEPT ![i][name] = m]

\* cached_method.__get__(instance, owner) for an instance the caller holds;
\* `keep`: the caller keeps a reference to the memoizer it got back.
get(b, i, keep) ==
    LET st == GetStatus(b, i)
        name == binder[b].methname
        m == IF st = "found" THEN Lookup(b, i)
             ELSE IF st = "created" THEN Len(memos) + 1
             ELSE NoMemo
    IN  /\ extRef[i]
        /\ memos' = IF st = "created" THEN Append(memos, NewMemo(b, i)) ELSE memos
        /\ hist' = IF st = "created" THEN Append(hist, NewHist) ELSE hist
        /\ dict' = IF st = "created" THEN StoreMemo(dict, i, name, m) ELSE dict
        /\ retained' = IF keep /\ m # NoMemo THEN retained \cup {m} ELSE retained
        /\ ret' = Result("get", b, i, m, name,
                         IF m # NoMemo THEN "ok" ELSE st,
                         NoKey, NoValue, FALSE, FALSE)
        /\ UNCHANGED <<binder, typeOf, alive, extRef, called, conflicted, pc, overlap>>

\* __get__(None, owner) that goes on to the name check.
GetOnClassStatusChecked(b) ==
    IF binder[b].methname = NoName THEN "UnboundAccess" ELSE "self"

\* How cached_method.__get__(None, owner) ends: it returns the binder.
GetOnClassStatus(b) == "self"

\* cached_method.__get__(None, owner): the attribute is read on the class.
get_on_class(b, owner) ==
    /\ ret' = Result("get_on_class", b, "-", NoMemo, binder[b].methname,
                     GetOnClassStatus(b), NoKey, NoValue, FALSE, FALSE)
    /\ UNCHANGED <<binder, typeOf, alive, extRef, dict, called, memos, retained,
                   hist, conflicted, pc, overlap>>

\* ------------------------------------------------- calling the memoizer

\* A memoizer the program can call: it holds a reference to the memoizer
\* itself, or to a live instance whose __dict__ holds it.
Accessible(m) ==
    /\ m \in 1..Len(memos)
    /\ ~memos[m].freed
    /\ \/ m \in retained
       \/ \E i \in Instances : extRef[i] /\ \E n \in Names : dict[i][n] = m

\* Whether the wrapper finds the key in its table (maxsize 0 never looks).
IsHit(memo, key) ==
    memo.maxsize # 0 /\ key \in TableKeys(memo.table)

\* How a call ends: a hit returns the stored value; a miss goes through
\* WeaklyBoundMethod.__call__, which raises when the weak reference is dead
\* and otherwise runs the function, which returns or raises.
CallStatus(memo, key, fails) ==
    IF IsHit(memo, key) THEN "ok"
    ELSE IF Deref(memo.wrapped) = "None" THEN "OwnerCollected"
    ELSE IF fails THEN "OpError"
    ELSE "ok"

\* A wrapper that stores the outcome of a call that raised as well.
TableAfterCachingErrors(memo, key, status, value) ==
    IF IsHit(memo, key) THEN Promote(memo.table, key)
    ELSE Insert(memo.table, memo.maxsize, key, value)

\* The table after the call: promoted on a hit, extended on a miss that
\* returned, untouched when the call raised.
TableAfter(memo, key, status, value) ==
    IF IsHit(memo, key) THEN Promote(memo.table, key)
    ELSE IF status = "ok" THEN Insert(memo.table, memo.maxsize, key, value)
    ELSE memo.table

\* What has been observed of a memoizer's calls: the keys called so far
\* (seen), the value the first successful call with each key returned
\* (first), the keys that returned a value, from the one used longest ago to
\* the one used last (recency), the number of runs of the underlying
\* function (inv) and whether any call raised (raised).
HistAfter(h, key, status, value, invoked) ==
    [seen |-> h.seen \cup {key},
     first |-> IF status = "ok" /\ ~(\E e \in h.first : e.key = key)
               THEN h.first \cup {[key |-> key, value |-> value]}
               ELSE h.first,
     recency |-> IF status = "ok"
                 THEN Append(SelectSeq(h.recency, LAMBDA k : k # key), key)
                 ELSE h.recency,
     inv |-> IF invoked THEN h.inv + 1 ELSE h.inv,
     raised |-> h.raised \/ status # "ok"]

\* A call memoizer(a) of the lru_cache wrapper with id m; `fails`: the
\* underlying function raises if it is run.
lru_cache_wrapper(m, a, fails) ==
    /\ Accessible(m)
    /\ LET memo == memos[m]
           key == make_key(a, memo.typed)
           hit == IsHit(memo, key)
           st == CallStatus(memo, key, fails)
           target == Deref(memo.wrapped)
           invoked == ~hit /\ target # "None"
           value == IF hit THEN memo.table[IndexOf(memo.table, key)].value
                    ELSE IF st = "ok" THEN Compute(memo.wrapped.func, target, a)
                    ELSE NoValue
       IN  /\ called' = IF invoked
                        THEN [called EXCEPT ![target] = @ + 1]
                        ELSE called
           /\ memos' = [memos EXCEPT ![m].table = TableAfter(memo, key, st, value)]
           /\ hist' = [hist EXCEPT ![m] = HistAfter(@, key, st, value, invoked)]
           /\ ret' = Result("call", "-", memo.wrapped.obj, m, NoName, st, key, value,
                            invoked, hit)
    /\ UNCHANGED <<binder, typeOf, alive, extRef, dict, retained, conflicted, pc, overlap>>

\* ----------------------------------------------- the function called directly

\* A direct call that leaves its result in the instance's memoizer.
direct_call_stored(b, i, a, fails) ==
    LET m == dict[i][binder[b].methname]
        value == Compute(binder[b].func, i, a)
    IN  /\ extRef[i]
        /\ binder[b].func # NoFunc
        /\ called' = [called EXCEPT ![i] = @ + 1]
        /\ memos' = IF m # NoMemo /\ ~fails
                    THEN [memos EXCEPT ![m].table =
                             Insert(SelectSeq(@, LAMBDA e : e.key # make_key(a, memos[m].typed)),
                                    memos[m].maxsize, make_key(a, memos[m].typed), value)]
                    ELSE memos
        /\ ret' = Result("direct", b, i, NoMemo, binder[b].func,
                         IF fails THEN "OpError" ELSE "ok", NoKey,
                         IF fails THEN NoValue ELSE value, TRUE, FALSE)
        /\ UNCHANGED <<binder, typeOf, alive, extRef, dict, retained, hist,
                       conflicted, pc, overlap>>

\* instance.f(a), where f is the plain function the binder b wraps and the
\* class holds b under another name than f's: the function runs.
direct_call(b, i, a, fails) ==
    /\ extRef[i]
    /\ binder[b].func # NoFunc
    /\ called' = [called EXCEPT ![i] = @ + 1]
    /\ ret' = Result("direct", b, i, NoMemo, binder[b].func,
                     IF fails THEN "OpError" ELSE "ok", NoKey,
                     IF fails THEN NoValue ELSE Compute(binder[b].func, i, a),
                     TRUE, FALSE)
    /\ UNCHANGED <<binder, typeOf, alive, extRef, dict, memos, retained, hist,
                   conflicted, pc, overlap>>

\* ------------------------------------------------------------- lifetimes

\* The instances kept alive by a strong reference: those the program holds
\* and those a held memoizer, or the memoizer of a kept instance, refers to
\* strongly.
RECURSIVE KeptAlive(_, _)
KeptAlive(S, depth) ==
    LET held == {m \in 1..Len(memos) :
                    /\ ~memos[m].freed
                    /\ \/ m \in retained
                       \/ \E i \in S, n \in Names : dict[i][n] = m}
        more == S \cup {memos[m].wrapped.obj : m \in {k \in held : ~memos[k].wrapped.weak}}
    IN  IF depth = 0 \/ more = S THEN S ELSE KeptAlive(more, depth - 1)

StronglyReachable(i) ==
    i \in KeptAlive({j \in Instances : extRef[j]}, Cardinality(Instances))

\* The memoizers nothing refers to any more once `gone` leaves i's __dict__
\* and `dropped` is no longer held by the program.
Free(ms, keep) ==
    [m \in 1..Len(ms) |->
        IF m \in keep \/ ms[m].freed THEN ms[m]
        ELSE [ms[m] EXCEPT !.freed = TRUE, !.table = <<>>]]

\* The program drops its last reference to instance i.
Release(i) ==
    /\ extRef[i]
    /\ extRef' = [extRef EXCEPT ![i] = FALSE]
    /\ ret' = Result("release", "-", i, NoMemo, NoName, "ok", NoKey, NoValue, FALSE, FALSE)
    /\ UNCHANGED <<binder, typeOf, alive, dict, called, memos, retained, hist,
                   conflicted, pc, overlap>>

\* The host reclaims an instance nothing refers to strongly; its __dict__
\* goes with it, and so does every memoizer only that __dict__ referred to.
Reclaim(i) ==
    /\ alive[i]
    /\ ~StronglyReachable(i)
    /\ alive' = [alive EXCEPT ![i] = FALSE]
    /\ dict' = [dict EXCEPT ![i] = [n \in Names |-> NoMemo]]
    /\ memos' = Free(memos, retained \cup
                     {dict[j][n] : j \in Instances \ {i}, n \in Names})
    /\ ret' = Result("reclaim", "-", i, NoMemo, NoName, "ok", NoKey, NoValue, FALSE, FALSE)
    /\ UNCHANGED <<binder, typeOf, extRef, called, retained, hist, conflicted, pc,
                   overlap>>

\* The program drops its reference to memoizer m.
Forget(m) ==
    /\ m \in retained
    /\ retained' = retained \ {m}
    /\ memos' = Free(memos, (retained \ {m}) \cup
                     {dict[j][n] : j \in Instances, n \in Names})
    /\ ret' = Result("forget", "-", memos[m].wrapped.obj, m, NoName, "ok", NoKey,
                     NoValue, FALSE, FALSE)
    /\ UNCHANGED <<binder, typeOf, alive, extRef, dict, called, hist, conflicted,
                   pc, overlap>>

\* ------------------------------------------- __get__ step by step, by threads

\* `if method is None` that takes every method for missing.
MethodMissingAlways(method) == TRUE

\* if method is None
MethodMissing(method) == method = NoMemo

\* The first half of __get__(instance) run by thread t: the checks of the
\* name and of the instance's __dict__, and method = cache.get(self.methname),
\* which t keeps as a local.  A failed check raises and ends the call.
get_read(t, b, i) ==
    LET st == GetStatus(b, i)
        early == st \in {"UnboundAccess", "NoAttributeStore"}
        others == {u \in Callers \ {t} : pc[u].at = "read" /\ pc[u].i = i}
    IN  /\ pc[t] = Idle
        /\ extRef[i]
        /\ pc' = IF early THEN pc
                 ELSE [pc EXCEPT ![t] = [at |-> "read", b |-> b, i |-> i,
                                         method |-> Lookup(b, i)]]
        /\ overlap' = IF ~early /\ others # {} THEN overlap \cup {i} ELSE overlap
        /\ ret' = Result("get_read", b, i, NoMemo, binder[b].methname,
                         IF early THEN st ELSE "ok", NoKey, NoValue, FALSE, FALSE)
        /\ UNCHANGED <<binder, typeOf, alive, extRef, dict, called, memos, retained,
                       hist, conflicted>>

\* The second half of __get__ run by thread t: if the method it read is
\* None it creates a memoizer and writes it to the __dict__, over whatever
\* is there by now; it returns the method.  `keep`: the caller keeps a
\* reference to the memoizer it got back.  A memoizer nothing refers to any
\* more is gone.
get_write(t, keep) ==
    LET b == pc[t].b
        i == pc[t].i
        name == binder[b].methname
        st == IF ~MethodMissing(pc[t].method) THEN "found"
              ELSE IF binder[b].func = NoFunc THEN "NoOperation"
              ELSE IF DictKind(typeOf[i]) = "readonly" THEN "ImmutableAttributeStore"
              ELSE "created"
        m == IF st = "found" THEN pc[t].method
             ELSE IF st = "created" THEN Len(memos) + 1
             ELSE NoMemo
        newdict == IF st = "created" THEN StoreMemo(dict, i, name, m) ELSE dict
        newretained == IF keep /\ m # NoMemo THEN retained \cup {m} ELSE retained
        newpc == [pc EXCEPT ![t] = Idle]
    IN  /\ pc[t].at = "read"
        /\ dict' = newdict
        /\ retained' = newretained
        /\ pc' = newpc
        /\ memos' = Free(IF st = "created" THEN Append(memos, NewMemo(b, i)) ELSE memos,
                         newretained
                             \cup {newdict[j][n] : j \in Instances, n \in Names}
                             \cup {newpc[u].method : u \in Callers})
        /\ hist' = IF st = "created" THEN Append(hist, NewHist) ELSE hist
        /\ ret' = Result("get", b, i, m, name, IF m # NoMemo THEN "ok" ELSE st,
                         NoKey, NoValue, FALSE, FALSE)
        /\ UNCHANGED <<binder, typeOf, alive, extRef, called, conflicted, overlap>>

\* ---------------------------------------------------------- specification

\* A call that would run the underlying function is taken only while the
\* instance has seen fewer than `max` invocations (the bound of the model).
WithinBudget(m, a, max) ==
    LET memo == memos[m]
        target == Deref(memo.wrapped)
    IN  (~IsHit(memo, make_key(a, memo.typed)) /\ target # "None")
            => called[target] < max

\* The state once the binder is constructed with the given maxsize and typed
\* values and the instances exist with the given classes; `name` is NoName,
\* or the name the binder's class body has attached it under.
InitWith(sizes, typeds, types, name) ==
    /\ binder \in [Binders ->
            {[cached_method_init(FuncOf(b), ms, ty) EXCEPT !.methname = name] :
                b \in Binders, ms \in sizes, ty \in typeds}]
    /\ typeOf \in types
    /\ alive = [i \in Instances |-> TRUE]
    /\ extRef = [i \in Instances |-> TRUE]
    /\ dict = [i \in Instances |-> [n \in Names |-> NoMemo]]
    /\ called = [i \in Instances |-> 0]
    /\ memos = <<>>
    /\ retained = {}
    /\ hist = <<>>
    /\ conflicted = {}
    /\ pc = [t \in Callers |-> Idle]
    /\ overlap = {}
    /\ ret = Result("init", "-", "-", NoMemo, NoName, "ok", NoKey, NoValue, FALSE, FALSE)

\* The same with the binders given as a set of functions from their names
\* to their fields.
InitOf(binders, types) ==
    /\ binder \in binders
    /\ typeOf \in types
    /\ alive = [i \in Instances |-> TRUE]
    /\ extRef = [i \in Instances |-> TRUE]
    /\ dict = [i \in Instances |-> [n \in Names |-> NoMemo]]
    /\ called = [i \in Instances |-> 0]
    /\ memos = <<>>
    /\ retained = {}
    /\ hist = <<>>
    /\ conflicted = {}
    /\ pc = [t \in Callers |-> Idle]
    /\ overlap = {}
    /\ ret = Result("init", "-", "-", NoMemo, NoName, "ok", NoKey, NoValue, FALSE, FALSE)

AllSizes == {Unbounded} \cup 0..MaxCap

\* The classes of the instances; y is an A like x, or a B.
TypesOf(ytypes) ==
    {t \in [Instances -> Types] :
        t["x"] = "A" /\ t["y"] \in ytypes /\ t["s"] = "S" /\ t["k"] = "M"}

\* One instance and its cache, from the first access to the reclaiming of
\* the instance: the binder is attached under "a" by the class body of A.
Init ==
    InitWith(AllSizes, BOOLEAN, TypesOf({"B"}), "a")

Next ==
    \/ \E b \in Binders, keep \in BOOLEAN : get(b, "x", keep)
    \/ \E m \in 1..Len(memos), a \in Args, fails \in BOOLEAN :
          WithinBudget(m, a, MaxCalls) /\ lru_cache_wrapper(m, a, fails)
    \/ Release("x")
    \/ Reclaim("x")
    \/ \E m \in 1..Len(memos) : Forget(m)

Spec == Init /\ [][Next]_vars

\* The binder from its construction on: class bodies attach it under either
\* name, and it is resolved on a plain instance, on an instance without a
\* __dict__ and on one whose __dict__ is read-only.
InitBind ==
    InitWith(AllSizes, BOOLEAN, TypesOf({"B"}), NoName)

NextBind ==
    \/ \E b \in Binders, owner \in Types, name \in Names : set_name(b, owner, name)
    \/ \E b \in Binders, i \in {"x", "s", "k"} : get(b, i, FALSE)
    \/ \E m \in 1..Len(memos), a \in Args, fails \in BOOLEAN :
          WithinBudget(m, a, MaxCallsShared) /\ lru_cache_wrapper(m, a, fails)

SpecBind == InitBind /\ [][NextBind]_vars

\* The binder from its construction with or without a function: the
\* decorator is applied to either function, class bodies attach the binder,
\* and the attribute is read on the class and on a plain instance.
InitCall ==
    InitOf([Binders -> {cached_method_init(fn, ms, ty) :
                           fn \in {NoFunc, "f"}, ms \in {Unbounded, 1}, ty \in BOOLEAN}],
           TypesOf({"B"}))

NextCall ==
    \/ \E b \in Binders, func \in Funcs \cup {NoFunc} : cached_method_call(b, func)
    \/ \E b \in Binders, owner \in Types, name \in Names : set_name(b, owner, name)
    \/ \E b \in Binders : get(b, "x", FALSE)
    \/ \E b \in Binders, owner \in Types : get_on_class(b, owner)
    \/ \E m \in 1..Len(memos), a \in ArgsOne, fails \in BOOLEAN :
          WithinBudget(m, a, MaxCallsShared) /\ lru_cache_wrapper(m, a, fails)

SpecCall == InitCall /\ [][NextCall]_vars

\* A plain instance whose class holds the binder under "a" and the wrapped
\* function under its own name: cached calls and direct calls.
InitDirect ==
    InitWith(AllSizes, BOOLEAN, TypesOf({"B"}), "a")

NextDirect ==
    \/ \E b \in Binders : get(b, "x", FALSE)
    \/ \E m \in 1..Len(memos), a \in ArgsOne, fails \in BOOLEAN :
          WithinBudget(m, a, MaxCallsShared) /\ lru_cache_wrapper(m, a, fails)
    \/ \E b \in Binders, a \in ArgsOne, fails \in BOOLEAN :
          called["x"] < MaxCallsShared /\ direct_call(b, "x", a, fails)

SpecDirect == InitDirect /\ [][NextDirect]_vars

\* Two binders resolved on one instance y of class B: cm, which wraps f, is
\* held by the base class A under "a"; cm2, which wraps g, is held by B,
\* under "a" as well (B overrides the method; the base one is reached as
\* super().a) or under "b".
InitPair ==
    InitOf({[b \in BindersPair |->
                [cached_method_init(FuncOf(b), ms, ty) EXCEPT
                    !.methname = IF b = "cm" THEN "a" ELSE name2]] :
                ms \in {Unbounded, 1}, ty \in BOOLEAN, name2 \in Names},
           TypesOf({"B"}))

NextPair ==
    \/ \E b \in BindersPair : get(b, "y", FALSE)
    \/ \E m \in 1..Len(memos), a \in ArgsOne, fails \in BOOLEAN :
          WithinBudget(m, a, MaxCallsShared) /\ lru_cache_wrapper(m, a, fails)

SpecPair == InitPair /\ [][NextPair]_vars

\* Two threads that resolve the binder, attached under "a", on the plain
\* instance x without a lock, and call the memoizers they got.
InitRace ==
    InitWith({Unbounded, 1}, BOOLEAN, TypesOf({"B"}), "a")

NextRace ==
    \/ \E t \in Callers, b \in Binders : get_read(t, b, "x")
    \/ \E t \in Callers, keep \in BOOLEAN : get_write(t, keep)
    \/ \E m \in 1..Len(memos), a \in ArgsOne, fails \in BOOLEAN :
          WithinBudget(m, a, MaxCallsShared) /\ lru_cache_wrapper(m, a, fails)

SpecRace == InitRace /\ [][NextRace]_vars

\* Two plain instances from the attaching of the binder to their reclaiming:
\* class bodies attach the binder, it is resolved on both, the memoizers are
\* called, and the instances are dropped and reclaimed.
InitOwner ==
    InitWith({Unbounded, 1}, {FALSE}, TypesOf({"A"}), NoName)

NextOwner ==
    \/ \E b \in Binders, owner \in Types, name \in Names : set_name(b, owner, name)
    \/ \E b \in Binders, i \in {"x", "y"} : get(b, i, FALSE)
    \/ \E m \in 1..Len(memos), a \in ArgsOne, fails \in BOOLEAN :
          WithinBudget(m, a, MaxCallsShared) /\ lru_cache_wrapper(m, a, fails)
    \/ \E i \in {"x", "y"} : Release(i)
    \/ \E i \in {"x", "y"} : Reclaim(i)

SpecOwner == InitOwner /\ [][NextOwner]_vars

\* Two plain instances, of one class or of two, that share the binder, which
\* both class bodies attached under "a".
InitTwo ==
    InitWith(AllSizes, BOOLEAN, TypesOf({"A", "B"}), "a")

NextTwo ==
    \/ \E b \in Binders, i \in {"x", "y"} : get(b, i, FALSE)
    \/ \E m \in 1..Len(memos), a \in ArgsOne, fails \in BOOLEAN :
          WithinBudget(m, a, MaxCallsShared) /\ lru_cache_wrapper(m, a, fails)

SpecTwo == InitTwo /\ [][NextTwo]_vars

\* ------------------------------------------------------------------ claims

OwnerOf(m) == memos[m].wrapped.obj
MemosOf(i) == {m \in 1..Len(memos) : OwnerOf(m) = i}
Bounded(m) == memos[m].maxsize # Unbounded /\ memos[m].maxsize > 0

RECURSIVE SumInv(_)
SumInv(ms) ==
    IF ms = {} THEN 0
    ELSE LET m == CHOOSE k \in ms : TRUE
         IN  hist[m].inv + SumInv(ms \ {m})

\* The keys called so far on instance i, the values their first calls
\* returned, and the runs of the underlying function, over every memoizer
\* handed out for i.
SeenOn(i) == UNION {hist[m].seen : m \in MemosOf(i)}
FirstOn(i) == UNION {hist[m].first : m \in MemosOf(i)}
InvOn(i) == SumInv(MemosOf(i))
NeverRaisedOn(i) == \A m \in MemosOf(i) : ~hist[m].raised

\* C1 (memoization): on an instance whose cache is unbounded and on which no
\* call has raised, the underlying function has run once per distinct key
\* called so far, and the call that just returned gave the value the first
\* call with its key returned.
C1_Memoization ==
    \A i \in Instances :
        ((\A m \in MemosOf(i) : memos[m].maxsize = Unbounded) /\ NeverRaisedOn(i)) =>
            /\ InvOn(i) = Cardinality(SeenOn(i))
            /\ (ret.op = "call" /\ ret.i = i) =>
                  /\ ret.status = "ok"
                  /\ [key |-> ret.key, value |-> ret.value] \in FirstOn(i)
                  /\ \A e \in FirstOn(i) : e.key = ret.key => e.value = ret.value

\* A second call with a key returned the first call's value without a run
\* of the function, after another key was computed in between.
C1_Witness ==
    /\ ret.op = "call" /\ ret.status = "ok" /\ ret.hit /\ ~ret.invoked
    /\ memos[ret.m].maxsize = Unbounded
    /\ ~hist[ret.m].raised
    /\ hist[ret.m].inv = 2
    /\ ret.value.n = 1

\* C4 (capacity invariant): every table has one entry per key and, with
\* maxsize k set, at most k entries.
C4_Capacity ==
    \A m \in 1..Len(memos) :
        /\ Cardinality(TableKeys(memos[m].table)) = Len(memos[m].table)
        /\ memos[m].maxsize # Unbounded => Len(memos[m].table) <= memos[m].maxsize

\* A full bounded table after a failed call and more calls than it can hold.
C4_Witness ==
    \E m \in 1..Len(memos) :
        /\ Bounded(m)
        /\ Len(memos[m].table) = memos[m].maxsize
        /\ hist[m].raised
        /\ hist[m].inv > memos[m].maxsize + 1

\* The place of key k in the use order of a memoizer.
UsePos(m, k) == CHOOSE j \in 1..Len(hist[m].recency) : hist[m].recency[j] = k

\* Among the keys of m's table, the one whose last use is the oldest.
LeastRecentlyUsed(m) ==
    CHOOSE k \in TableKeys(memos[m].table) :
        \A k2 \in TableKeys(memos[m].table) : UsePos(m, k) <= UsePos(m, k2)

\* The keys that returned a value once and are no longer among the maxsize
\* keys used last.
EvictedKeys(m) ==
    LET r == hist[m].recency
    IN  {r[j] : j \in 1..(Len(r) - memos[m].maxsize)}

\* C3 (strict LRU): a miss that returns on a full table of a bounded cache
\* removes exactly the entry whose last use (insertion or hit) is the oldest
\* and adds the new key; a call with a key that was evicted is a miss and
\* runs the underlying function again (as long as the instance lives).
C3_StrictLRU ==
    [][\A m \in 1..Len(memos) :
          (ret'.op = "call" /\ ret'.m = m /\ Bounded(m)) =>
              /\ (~ret'.hit /\ ret'.status = "ok"
                    /\ Len(memos[m].table) = memos[m].maxsize) =>
                     TableKeys(memos'[m].table) =
                        (TableKeys(memos[m].table) \ {LeastRecentlyUsed(m)})
                            \cup {ret'.key}
              /\ (ret'.key \in EvictedKeys(m) /\ alive[OwnerOf(m)]) =>
                     ~ret'.hit /\ ret'.invoked]_vars

\* With maxsize 2: k1, k2, a hit on k1, k3 (which evicts k2, not k1), then
\* k2 again, which is computed a second time, by the fourth run.
C3_Witness ==
    /\ ret.op = "call" /\ ret.status = "ok" /\ ret.invoked
    /\ memos[ret.m].maxsize = 2
    /\ ~hist[ret.m].raised
    /\ hist[ret.m].inv = 4
    /\ Cardinality(hist[ret.m].seen) = 3
    /\ ret.value.n = 4
    /\ \E e \in hist[ret.m].first : e.key = ret.key /\ e.value.n = 2

\* What C5 says of a call that raised: the error reaches the caller and the
\* table is as before, without the key.
FailedCallLeavesTable ==
    \A m \in 1..Len(memos) :
        (ret'.op = "call" /\ ret'.m = m /\ ret'.status # "ok") =>
            /\ ret'.status \in {"OpError", "OwnerCollected"}
            /\ ~ret'.hit
            /\ memos'[m].table = memos[m].table
            /\ ret'.key \notin TableKeys(memos'[m].table)

\* The step is a call of m with a key that is being retried: the step
\* before was a call of m with that key that raised, or every call of m with
\* that key so far has raised.
RetryStep(m) ==
    /\ ret'.op = "call" /\ ret'.m = m
    /\ \/ ret.op = "call" /\ ret.m = m /\ ret.status # "ok" /\ ret.key = ret'.key
       \/ /\ ret'.key \in hist[m].seen
          /\ \A j \in 1..Len(hist[m].recency) : hist[m].recency[j] # ret'.key

\* C5 as written (a failed call is never memoized): a call that raised
\* leaves the table as it was, and the next call with the same key runs the
\* underlying function again.
C5_Original ==
    [][/\ FailedCallLeavesTable
       /\ \A m \in 1..Len(memos) : RetryStep(m) => ret'.invoked]_vars

\* C5 as amended: a call that raised leaves the table as it was, and the
\* next call with the same key is a miss again: it runs the underlying
\* function if the instance still lives and raises OwnerCollected if not.
C5_FailedCallNotMemoized ==
    [][/\ FailedCallLeavesTable
       /\ \A m \in 1..Len(memos) : RetryStep(m) =>
            /\ ~ret'.hit
            /\ IF alive[OwnerOf(m)]
               THEN ret'.invoked /\ ret'.status \in {"ok", "OpError"}
               ELSE ~ret'.invoked /\ ret'.status = "OwnerCollected"]_vars

\* The function raised on a miss against a full table, and the retry ran it
\* again and returned.
C5_Witness ==
    /\ ret.op = "call" /\ ret.status = "ok" /\ ret.invoked
    /\ Bounded(ret.m)
    /\ hist[ret.m].raised
    /\ hist[ret.m].inv = memos[ret.m].maxsize + 2
    /\ Cardinality(hist[ret.m].seen) = memos[ret.m].maxsize + 1

\* C6 as written (owner collection): every call of a memoizer whose
\* instance has been reclaimed raises OwnerCollected.
C6_Original ==
    (ret.op = "call" /\ ~alive[ret.i]) => ret.status = "OwnerCollected"

\* C6 as amended: a call of a memoizer whose instance has been reclaimed
\* raises OwnerCollected when its key is not in the table, without a run of
\* the function; a call with a key still in the table is a hit and returns
\* the stored value.
C6_OwnerCollected ==
    (ret.op = "call" /\ ~alive[ret.i]) =>
        /\ ~ret.invoked
        /\ IF ret.hit
           THEN /\ ret.status = "ok"
                /\ [key |-> ret.key, value |-> ret.value] \in
                       {memos[ret.m].table[j] : j \in 1..Len(memos[ret.m].table)}
           ELSE ret.status = "OwnerCollected" /\ ret.value = NoValue

\* A kept memoizer raised OwnerCollected for a new key after its instance,
\* on which it had cached another key, was reclaimed.
C6_Witness ==
    /\ ret.op = "call" /\ ~alive[ret.i]
    /\ ret.status = "OwnerCollected"
    /\ ret.m \in retained
    /\ memos[ret.m].table # <<>>

\* C7 (weak ownership): a memoizer refers to its instance only weakly, so an
\* instance the program no longer holds is not kept alive by its cache, even
\* by a memoizer the program still holds; and once the instance is
\* reclaimed, a memoizer nothing else holds is gone with it.
C7_WeakOwnership ==
    /\ \A m \in 1..Len(memos) : memos[m].wrapped.weak
    /\ \A i \in Instances : (alive[i] /\ ~extRef[i]) => ~StronglyReachable(i)
    /\ \A m \in 1..Len(memos) :
          (~alive[OwnerOf(m)] /\ m \notin retained) =>
              memos[m].freed /\ memos[m].table = <<>>

\* An instance was reclaimed while the program held its memoizer, with
\* cached entries, and the memoizer was dropped afterwards.
C7_Witness ==
    \E m \in 1..Len(memos) :
        /\ ~alive[OwnerOf(m)]
        /\ hist[m].inv > 0
        /\ memos[m].freed
        /\ ret.op = "forget" /\ ret.m = m

\* C2 (per-instance isolation): a resolve or a call on one instance leaves
\* every other instance's __dict__, memoizers, tables and call count as they
\* were; the memoizer a resolve returns belongs to the instance it was asked
\* for; and the first call with a key on an instance is a miss that runs the
\* function on that instance, whatever the other instances have cached.
C2_Isolation ==
    [][\A i \in Instances :
          (ret'.op \in {"get", "call"} /\ ret'.i = i) =>
              /\ \A j \in Instances \ {i} :
                    /\ dict'[j] = dict[j]
                    /\ called'[j] = called[j]
                    /\ MemosOf(j)' = MemosOf(j)
                    /\ \A m \in MemosOf(j) : memos'[m] = memos[m] /\ hist'[m] = hist[m]
              /\ (ret'.op = "get" /\ ret'.status = "ok") =>
                    /\ memos'[ret'.m].wrapped.obj = i
                    /\ dict'[i][ret'.name] = ret'.m
              /\ (ret'.op = "call" /\ ret'.key \notin SeenOn(i)) =>
                    /\ ~ret'.hit
                    /\ ret'.invoked
                    /\ called'[i] = called[i] + 1]_vars

\* A key that x has in its table was called on y, an instance of another
\* class, for the first time: the function ran on y.
C2_Witness ==
    /\ typeOf["y"] = "B"
    /\ ret.op = "call" /\ ret.i = "y" /\ ret.invoked /\ ret.status = "ok"
    /\ called["y"] = 1
    /\ \E m \in MemosOf("x") : ret.key \in TableKeys(memos[m].table)

\* C8 (the bound name is write-once): the first __set_name__ sets the name;
\* a later one with the same name succeeds and changes nothing; a later one
\* with another name raises NameConflict and leaves the name as it was.
C8_NameWriteOnce ==
    [][\A b \in Binders :
          (ret'.op = "set_name" /\ ret'.b = b) =>
              /\ UNCHANGED <<dict, memos, called, retained>>
              /\ \A c \in Binders \ {b} : binder'[c] = binder[c]
              /\ IF binder[b].methname = NoName
                 THEN /\ ret'.status = "ok"
                      /\ binder' = [binder EXCEPT ![b].methname = ret'.name]
                 ELSE IF binder[b].methname = ret'.name
                 THEN ret'.status = "ok" /\ binder' = binder
                 ELSE ret'.status = "NameConflict" /\ binder' = binder]_vars

\* A second name was refused after the first was attached twice and used.
C8_Witness ==
    /\ ret.op = "set_name" /\ ret.status = "NameConflict"
    /\ binder[ret.b].methname \in Names \ {ret.name}
    /\ dict["x"][binder[ret.b].methname] # NoMemo

\* C9 as written (a name conflict is permanent): once a __set_name__ on a
\* binder has raised, no resolve of that binder returns a memoizer.
C9_Original ==
    \A b \in conflicted : (ret.op = "get" /\ ret.b = b) => ret.status # "ok"

\* C9 as amended: a __set_name__ that raises changes nothing, and the
\* binder stays usable under its first name: a later resolve on an instance
\* with a writable __dict__ returns the memoizer stored under that name, and
\* fails on the other instances for their storage alone.
C9_ConflictChangesNothing ==
    [][/\ (ret'.op = "set_name" /\ ret'.status = "NameConflict") =>
             UNCHANGED <<binder, dict, memos, called, hist, retained>>
       /\ \A b \in conflicted :
             (ret'.op = "get" /\ ret'.b = b) =>
                 /\ binder'[b].methname # NoName
                 /\ ret'.name = binder'[b].methname
                 /\ CASE DictKind(typeOf[ret'.i]) = "dict" ->
                            /\ ret'.status = "ok"
                            /\ ret'.m # NoMemo
                            /\ ret'.m = dict'[ret'.i][ret'.name]
                      [] DictKind(typeOf[ret'.i]) = "none" ->
                            ret'.status = "NoAttributeStore"
                      [] OTHER -> ret'.status = "ImmutableAttributeStore"]_vars

\* After a refused second name, a resolve returned the memoizer, and a call
\* of it was served from the table filled before the conflict.
C9_Witness ==
    /\ ret.op = "call" /\ ret.status = "ok" /\ ret.hit
    /\ conflicted # {}
    /\ \E b \in conflicted : dict[ret.i][binder[b].methname] = ret.m

\* C10 (unbound access): while a binder has no name, a resolve on any
\* instance, whatever its storage, raises UnboundAccess, creates no
\* memoizer, writes no __dict__ and runs nothing.
C10_UnboundAccess ==
    [][\A b \in Binders :
          (ret'.op = "get" /\ ret'.b = b /\ binder[b].methname = NoName) =>
              /\ ret'.status = "UnboundAccess"
              /\ ret'.m = NoMemo
              /\ UNCHANGED <<binder, dict, memos, called, hist, retained>>]_vars

\* UnboundAccess was raised on the instance whose class has no __dict__.
C10_Witness ==
    /\ ret.op = "get" /\ ret.status = "UnboundAccess"
    /\ DictKind(typeOf[ret.i]) = "none"
    /\ binder[ret.b].methname = NoName

\* C11 (storage rejection): with a name attached, a resolve on an instance
\* without a __dict__ raises NoAttributeStore, and a resolve on an instance
\* whose __dict__ is read-only and has no entry under the name raises
\* ImmutableAttributeStore, a different error; either way no memoizer is
\* returned, nothing is stored and nothing is run, so the entry stays absent
\* and every later resolve ends the same way.
C11_StorageRejection ==
    [][/\ \A b \in Binders :
             (ret'.op = "get" /\ ret'.b = b /\ binder[b].methname # NoName) =>
                 LET i == ret'.i
                     kind == DictKind(typeOf[i])
                     absent == dict[i][binder[b].methname] = NoMemo
                 IN  /\ (kind = "none") => ret'.status = "NoAttributeStore"
                     /\ (kind = "readonly" /\ absent) =>
                            ret'.status = "ImmutableAttributeStore"
                     /\ (kind = "none" \/ (kind = "readonly" /\ absent)) =>
                            /\ ret'.m = NoMemo
                            /\ ret'.status \notin {"ok", "UnboundAccess"}
                            /\ UNCHANGED <<binder, dict, memos, called, hist, retained>>
       /\ \A i \in Instances :
             (DictKind(typeOf[i]) # "dict" /\ dict[i] = [n \in Names |-> NoMemo]) =>
                 dict'[i] = dict[i]]_vars

\* ImmutableAttributeStore was raised on the class with the read-only
\* __dict__ while the plain instance holds a memoizer that has been called.
C11_Witness ==
    /\ ret.op = "get" /\ ret.status = "ImmutableAttributeStore"
    /\ DictKind(typeOf[ret.i]) = "readonly"
    /\ dict["x"][binder[ret.b].methname] # NoMemo
    /\ called["x"] > 0


\* The entries of memoizer m's table.
Entries(m) == {memos[m].table[j] : j \in 1..Len(memos[m].table)}

C13_ClassAccess ==
    [][\A b \in Binders :
          (ret'.op = "get_on_class" /\ ret'.b = b) =>
              /\ ret'.status = "self"
              /\ ret'.m = NoMemo /\ ~ret'.invoked
              /\ UNCHANGED <<binder, typeOf, alive, extRef, dict, called, memos,
                             retained, hist, conflicted>>]_vars

\* The attribute was read on the class before any name was attached.
C13_Witness ==
    /\ ret.op = "get_on_class" /\ ret.status = "self"
    /\ binder[ret.b].methname = NoName
    /\ ret.name = NoName


\* C14 (the cache lives under the attached name): the binder is attached
\* under a name that is not its function's; the memoizer sits under that
\* name in the instance's __dict__.  A direct call of the function on the
\* instance always runs it and returns a fresh result, and leaves __dict__,
\* the memoizers, their tables and the order of their entries as they were;
\* a cached call with a key that is in the table runs nothing and returns
\* the stored value, whatever the direct calls in between have returned.
C14_CacheUnderAttachedName ==
    [][/\ \A b \in Binders :
             /\ binder[b].methname # binder[b].func
             /\ (ret'.op = "get" /\ ret'.b = b /\ ret'.status = "ok") =>
                    /\ dict'[ret'.i][binder[b].methname] = ret'.m
                    /\ \A n \in Names \ {binder[b].methname} : dict'[ret'.i][n] = NoMemo
       /\ (ret'.op = "direct") =>
             /\ ret'.invoked /\ ~ret'.hit
             /\ called'[ret'.i] = called[ret'.i] + 1
             /\ (ret'.status = "ok") => ret'.value.n = called'[ret'.i]
             /\ UNCHANGED <<binder, dict, memos, hist, retained>>
       /\ \A m \in 1..Len(memos) :
             (ret'.op = "call" /\ ret'.m = m /\ IsHit(memos[m], ret'.key)) =>
                 /\ ret'.hit /\ ~ret'.invoked /\ called' = called
                 /\ [key |-> ret'.key, value |-> ret'.value] \in Entries(m)
                 /\ \E e \in hist[m].first : e.key = ret'.key]_vars

\* A cached call returned the value stored by the first invocation after a
\* direct call with the same argument had returned another one.
C14_Witness ==
    /\ ret.op = "call" /\ ret.hit /\ ret.status = "ok"
    /\ ret.value.n = 1
    /\ called[ret.i] = 2
    /\ hist[ret.m].inv = 1


\* C15 (the wrapped function is write-once): __call__ with a function sets
\* it on a binder that has none and changes no other field than the
\* metadata; with the function the binder already has it changes nothing;
\* with another function it raises OperationConflict and the binder keeps
\* the function it had.  No __dict__ and no memoizer is touched.
C15_OperationWriteOnce ==
    [][\A b \in Binders, func \in Funcs :
          cached_method_call(b, func) =>
              /\ ret'.op = "bind" /\ ret'.b = b
              /\ UNCHANGED <<dict, memos, called, hist, retained>>
              /\ \A c \in Binders \ {b} : binder'[c] = binder[c]
              /\ IF binder[b].func = NoFunc
                 THEN /\ ret'.status = "ok"
                      /\ binder'[b].func = func
                      /\ binder'[b].methname = binder[b].methname
                      /\ binder'[b].maxsize = binder[b].maxsize
                      /\ binder'[b].typed = binder[b].typed
                 ELSE IF binder[b].func = func
                 THEN ret'.status = "ok" /\ binder' = binder
                 ELSE ret'.status = "OperationConflict" /\ binder' = binder]_vars

\* A binder constructed without a function was given g, and was then given
\* f, which was refused, after a memoizer of g had been created.
C15_Witness ==
    /\ ret.op = "bind" /\ ret.status = "OperationConflict"
    /\ binder[ret.b].func = "g"
    /\ \E m \in 1..Len(memos) : memos[m].wrapped.func = "g"


\* C16 (metadata copy): a binder that has a function shows that function's
\* __name__ and __doc__, from the __call__ that set it on and through every
\* later operation; and every memoizer a resolve has created shows the
\* __name__ and __doc__ of the function it wraps, which is its binder's.
C16_MetadataCopy ==
    /\ \A b \in Binders :
          /\ (binder[b].func # NoFunc) => binder[b].meta = Meta(binder[b].func)
          /\ (binder[b].func = NoFunc) => binder[b].meta = OwnMeta("cached_method")
    /\ \A m \in 1..Len(memos) :
          /\ memos[m].wrapped.func \in Funcs
          /\ memos[m].meta = Meta(memos[m].wrapped.func)
          /\ \A b \in Binders :
                (\E i \in Instances : dict[i][binder[b].methname] = m) =>
                    memos[m].meta = binder[b].meta

\* A binder constructed without a function was given g by __call__ and was
\* resolved on the instance: the memoizer shows g's __name__ and __doc__.
C16_Witness ==
    /\ ret.op = "get" /\ ret.status = "ok"
    /\ binder[ret.b].func = "g"
    /\ binder[ret.b].meta.name = "g"
    /\ memos[ret.m].meta = [name |-> "g", doc |-> <<"doc of function", "g">>]


\* C17 as written (caches keyed by instance and binder): whichever binders
\* have been resolved on an instance before, also one attached under the
\* same name, the memoizer a resolve returns for a binder is that binder's
\* own: it wraps the binder's function, with the binder's maxsize and typed.
C17_Original ==
    (ret.op = "get" /\ ret.status = "ok") =>
        /\ memos[ret.m].wrapped.func = binder[ret.b].func
        /\ memos[ret.m].wrapped.obj = ret.i
        /\ memos[ret.m].maxsize = binder[ret.b].maxsize
        /\ memos[ret.m].typed = binder[ret.b].typed


\* C18 (lazy creation is idempotent): for a binder with a name and an
\* instance with a writable __dict__, a resolve that finds no entry under
\* the name creates one memoizer, with the binder's maxsize and typed, an
\* empty table and the instance as its owner, and stores it under the name;
\* a resolve that finds an entry returns that memoizer and leaves the
\* memoizers, their tables and every __dict__ as they were.  The instance
\* never has a second memoizer.
C18_LazyCreationIdempotent ==
    [][\A b \in Binders :
          (/\ ret'.op = "get" /\ ret'.b = b
           /\ binder[b].methname # NoName
           /\ DictKind(typeOf[ret'.i]) = "dict") =>
              LET i == ret'.i
                  name == binder[b].methname
                  old == dict[i][name]
              IN  /\ ret'.status = "ok"
                  /\ {m \in 1..Len(memos') : memos'[m].wrapped.obj = i} = {ret'.m}
                  /\ IF old = NoMemo
                     THEN /\ Len(memos') = Len(memos) + 1
                          /\ ret'.m = Len(memos')
                          /\ \A m \in 1..Len(memos) : memos'[m] = memos[m]
                          /\ memos'[ret'.m].maxsize = binder[b].maxsize
                          /\ memos'[ret'.m].typed = binder[b].typed
                          /\ memos'[ret'.m].table = <<>>
                          /\ memos'[ret'.m].wrapped.obj = i
                          /\ dict' = [dict EXCEPT ![i][name] = ret'.m]
                     ELSE /\ ret'.m = old
                          /\ memos' = memos
                          /\ hist' = hist
                          /\ dict' = dict]_vars

\* A later resolve returned the memoizer of maxsize 1 the first one had
\* created, with the entry a call had stored in between.
C18_Witness ==
    /\ ret.op = "get" /\ ret.status = "ok"
    /\ Len(memos) = 1 /\ ret.m = 1
    /\ memos[ret.m].maxsize = 1 /\ memos[ret.m].typed
    /\ Len(memos[ret.m].table) = 1
    /\ dict[ret.i][ret.name] = ret.m


\* The memoizers created for instance i that its __dict__ does not hold.
Discarded(i) == {m \in MemosOf(i) : \A n \in Names : dict[i][n] # m}

\* C19 (first-access race): as long as no two threads have been inside
\* __get__ on an instance at once, the instance has at most one memoizer and
\* none was discarded.  Once two have, both may have read the entry as
\* absent: then each has created a memoizer, the __dict__ holds the one
\* written last and the other is discarded; there are never more than the
\* two.
C19_FirstAccessRace ==
    \A i \in Instances :
        /\ (i \notin overlap) =>
              /\ Cardinality(MemosOf(i)) <= 1
              /\ Discarded(i) = {}
        /\ Cardinality(MemosOf(i)) <= Cardinality(Callers)
        /\ (Discarded(i) # {}) =>
              \E n \in Names :
                  /\ dict[i][n] \in MemosOf(i)
                  /\ \A m \in Discarded(i) : m < dict[i][n]

\* Both threads read the entry of x as absent; the memoizer of the first to
\* write was replaced by the second's, and the same key was then called on
\* both memoizers: the function ran twice for it.
C19_Witness ==
    /\ Len(memos) = 2
    /\ dict["x"]["a"] = 2
    /\ Discarded("x") = {1}
    /\ 1 \in retained /\ ~memos[1].freed
    /\ hist[1].inv = 1 /\ hist[2].inv = 1
    /\ TableKeys(memos[1].table) = TableKeys(memos[2].table)
    /\ TableKeys(memos[1].table) # {}
    /\ called["x"] = 2


\* C20 (owner handle): after every step, each memoizer in the __dict__ of a
\* live instance holds a weak reference to a method of that very instance;
\* and a call of a memoizer that sits in a live instance's __dict__ runs the
\* function, if it runs it at all, on that instance with a result computed
\* there, and on no other instance.
C20_OwnerHandle ==
    [][\A i \in Instances, n \in Names :
          /\ (alive'[i] /\ dict'[i][n] # NoMemo) =>
                /\ memos'[dict'[i][n]].wrapped.obj = i
                /\ memos'[dict'[i][n]].wrapped.weak
                /\ ~memos'[dict'[i][n]].freed
          /\ (ret'.op = "call" /\ alive[i] /\ dict[i][n] = ret'.m) =>
                /\ ret'.i = i
                /\ ret'.status # "OwnerCollected"
                /\ ret'.invoked => called'[i] = called[i] + 1
                /\ (ret'.invoked /\ ret'.status = "ok") => ret'.value.n = called'[i]
                /\ \A j \in Instances \ {i} : called'[j] = called[j]]_vars

\* The memoizer of y ran the function on y after x, which had a memoizer
\* with a cached entry of its own, was reclaimed.
C20_Witness ==
    /\ ret.op = "call" /\ ret.i = "y" /\ ret.invoked /\ ret.status = "ok"
    /\ \E n \in Names : dict["y"][n] = ret.m
    /\ ~alive["x"]
    /\ called["x"] > 0 /\ called["y"] = 1


====
